---- MODULE Spec2Model ----
(***************************************************************************)
(* Model of potato.py: a BLE cycling-power sensor bridged to a virtual     *)
(* Xbox 360 gamepad.  Three threads share one gamepad report:              *)
(*   - the main thread (main), which wires everything and then waits;      *)
(*   - the BLE event-loop thread, which runs KickrController.run and the   *)
(*     notification handler handle_power_notify;                           *)
(*   - the keyboard hook thread, which runs the press/release lambdas of   *)
(*     setup_keyboard_mapping.                                             *)
(* The source takes no lock, so the steps of the last two interleave at    *)
(* the granularity of the calls on the shared gamepad.                     *)
(*                                                                         *)
(* Ratios are fixed-point numbers in units of 1/RatioUnit.                 *)
(***************************************************************************)
EXTENDS Integers, Sequences, FiniteSets, TLC

VARIABLES
    ftp,            \* args.ftp / self.ftp
    threshold,      \* args.threshold / self.threshold
    disable_dpad,   \* args.disable_dpad
    mainPc,         \* position of main()
    registered,     \* keys with press/release handlers registered
    runPc,          \* position of the coroutine KickrController.run
    devices,        \* the list BleakScanner.discover returned, until a device is picked
    client,         \* self.client: the matched device, NoDevice if none
    subscribed,     \* start_notify succeeded: notifications are delivered
    scanAttempts,   \* history: calls of BleakScanner.discover
    connectAttempts,    \* history: calls of client.connect
    subscribeAttempts,  \* history: calls of client.start_notify
    arrived,        \* history: notification packets in arrival order
    handled,        \* number of notifications whose handler has started
    notifyPc,       \* position of handle_power_notify
    notifyResult,   \* outcome of the last finished notification task
    power,          \* self.power
    trigger,        \* self.trigger (fixed point)
    report,         \* gamepad.report: bRightTrigger and wButtons
    status,         \* <<power, trigger>> last handed to update_callback, or <<>>
    forwarded,      \* history: values passed to right_trigger, in order
    notifyApplies,  \* history: gamepad.update calls made by notifications
    notifyExpected, \* history: <<report>> right after the handler's write
    keyPc,          \* position of the running key lambda
    keyCur,         \* <<key, edge>> being handled, or <<>>
    keyResult,      \* outcome of the last finished key lambda
    edges,          \* history: per key, number of edges handled
    lastEdge,       \* history: per key, the last edge handled
    alternating,    \* history: per key, edges alternated press/release so far
    keyApplies,     \* history: gamepad.update calls made by key lambdas
    keyExpected,    \* history: <<report>> right after the lambda's write
    hidFailures     \* history: number of gamepad.update calls that failed

vars == <<ftp, threshold, disable_dpad, mainPc, registered, runPc, devices, client,
          subscribed, scanAttempts, connectAttempts, subscribeAttempts,
          arrived, handled, notifyPc, notifyResult, power, trigger, report,
          status, forwarded, notifyApplies, notifyExpected, keyPc, keyCur,
          keyResult, edges, lastEdge, alternating, keyApplies, keyExpected,
          hidFailures>>

mainVars == <<ftp, threshold, disable_dpad, mainPc, registered>>
runVars == <<runPc, devices, client, subscribed, scanAttempts,
             connectAttempts, subscribeAttempts>>
notifyVars == <<handled, notifyPc, notifyResult, power, trigger, status,
                forwarded, notifyApplies, notifyExpected>>
keyVars == <<keyPc, keyCur, keyResult, edges, lastEdge, alternating,
             keyApplies, keyExpected>>

-----------------------------------------------------------------------------
(* Bounds of the model *)

MaxNotifications == 2
MaxEdges == 2
MaxDevices == 2
MaxHidFailures == 1

-----------------------------------------------------------------------------
(* Inputs *)

\* --ftp values tried; the default is 230.0
FtpValues == {230, 0}

\* --threshold values tried; the default is 0
ThresholdValues == {0, 50}

\* notification payloads: a short packet, 300 W, -10 W
Packets == { <<0, 0>>,
             <<0, 0, 44, 1>>,
             <<0, 0, 246, 255>> }

\* --device-name, as a sequence of characters
device_name_arg == <<"k", "i">>

\* advertised names of nearby devices; a device without a name (None) has
\* the empty name, which Python's truth test treats alike
DeviceNames == { <<>>, <<"K", "i">>, <<"x", "k", "I">>, <<"x">> }

DeviceLists == UNION { [1..n -> DeviceNames] : n \in 0..MaxDevices }

\* keys whose edges the keyboard hook delivers
InputKeys == {"left", "right"}

Edges == {"press", "release"}

-----------------------------------------------------------------------------
(* Pure functions *)

RatioUnit == 1000000

\* integer division truncating toward zero, as Python's int() of a float
TruncDiv(x, d) == IF x >= 0 THEN x \div d ELSE -((-x) \div d)

\* faulty variant: the two bytes read as an unsigned integer
from_bytes_le_unsigned(lo, hi) == lo + 256 * hi

\* int.from_bytes(data[2:4], byteorder='little', signed=True)
from_bytes_le_signed(lo, hi) ==
    LET u == lo + 256 * hi
    IN  IF u >= 32768 THEN u - 65536 ELSE u

parse_cycling_power(data) ==
    IF Len(data) < 4
    THEN 0
    ELSE from_bytes_le_signed(data[3], data[4])

\* from this many watts on math.tanh(scale * p) is exactly 1.0 in double
\* precision, for the values of ftp tried
SaturationWatts == 5000

\* math.tanh(math.atanh(0.75) / 230 * p), truncated to 1/RatioUnit
Tanh230(p) ==
    CASE p = 0   -> 0
      [] p = 10  -> 42277
      [] p = 20  -> 84403
      [] p = 30  -> 126230
      [] p = 50  -> 208413
      [] p = 100 -> 399474
      [] p = 230 -> 750000
      [] p = 300 -> 853545
      [] p >= SaturationWatts -> RatioUnit

\* math.tanh(math.atanh(0.75) / 100 * p), truncated to 1/RatioUnit
Tanh100(p) ==
    CASE p = 0   -> 0
      [] p = 10  -> 96989
      [] p = 20  -> 192171
      [] p = 30  -> 283870
      [] p = 50  -> 451416
      [] p = 100 -> 750000
      [] p = 230 -> 977489
      [] p = 300 -> 994186
      [] p >= SaturationWatts -> RatioUnit

\* faulty variant: the scale is that of the default ftp, whatever self.ftp
tanh_scaled_default_ftp(f, p) ==
    LET a == IF p < 0 THEN -p ELSE p
        s == IF (p < 0) = (f < 0) THEN 1 ELSE -1
    IN  s * Tanh230(a)

\* math.tanh(scale * self.power) with scale = math.atanh(0.75) / self.ftp;
\* tanh is odd, so the sign of the result is the sign of power / ftp
tanh_scaled(f, p) ==
    LET a == IF p < 0 THEN -p ELSE p
        s == IF (p < 0) = (f < 0) THEN 1 ELSE -1
    IN  CASE f = 230 \/ f = -230 -> s * Tanh230(a)
          [] f = 100 \/ f = -100 -> s * Tanh100(a)

\* math.atanh(0.75) / self.ftp raises ZeroDivisionError
ScaleRaises(f) == f = 0

\* faulty variant: a power equal to the threshold is zeroed too
signal_ratio_inclusive(p, f, t) ==
    IF p <= t THEN 0 ELSE tanh_scaled(f, p)

\* the branch of handle_power_notify that sets self.trigger
signal_ratio(p, f, t) ==
    IF p < t THEN 0 ELSE tanh_scaled(f, p)

\* faulty variant: round(self.trigger * 255)
trigger_value_rounded(ratio) ==
    IF ratio >= 0
    THEN TruncDiv(2 * ratio * 255 + RatioUnit, 2 * RatioUnit)
    ELSE -TruncDiv(2 * (-ratio) * 255 + RatioUnit, 2 * RatioUnit)

\* int(self.trigger * 255)
trigger_value(ratio) == TruncDiv(ratio * 255, RatioUnit)

\* str.upper on one character
UpperChar(c) ==
    CASE c = "k" -> "K"
      [] c = "i" -> "I"
      [] c = "x" -> "X"
      [] OTHER   -> c

upper(s) == [i \in 1..Len(s) |-> UpperChar(s[i])]

\* needle in hay
Contains(hay, needle) ==
    \E i \in 0..(Len(hay) - Len(needle)) :
        SubSeq(hay, i + 1, i + Len(needle)) = needle

\* self.device_name = device_name.upper()
device_name == upper(device_name_arg)

\* faulty variant: the advertised name is compared as it is
Matches_case_sensitive(name) == name # <<>> /\ Contains(name, device_name)

\* d.name and self.device_name in d.name.upper()
Matches(name) == name # <<>> /\ Contains(upper(name), device_name)

\* the default None of next(..., None), and self.client = None
NoDevice == <<"None">>

\* next((d for d in devices if ...), None): the first match in discovery
\* order; a device is identified by its advertised name
FirstMatch(found) ==
    IF \E i \in 1..Len(found) : Matches(found[i])
    THEN LET i == CHOOSE i \in 1..Len(found) :
                    /\ Matches(found[i])
                    /\ \A j \in 1..(i - 1) : ~Matches(found[j])
         IN  found[i]
    ELSE NoDevice

\* key_map of setup_keyboard_mapping
key_map ==
    [k \in {"left", "right", "home", "shift", "enter", "end", "=", "subtract"} |->
        CASE k = "left"     -> "DPAD_LEFT"
          [] k = "right"    -> "DPAD_RIGHT"
          [] k = "home"     -> "A"
          [] k = "shift"    -> "B"
          [] k = "enter"    -> "X"
          [] k = "end"      -> "Y"
          [] k = "="        -> "RIGHT_SHOULDER"
          [] k = "subtract" -> "LEFT_SHOULDER"]

\* faulty variant: wButtons ^= b
press_button_toggle(buttons, b) ==
    IF b \in buttons THEN buttons \ {b} ELSE buttons \cup {b}

\* faulty variant: wButtons = b, the last key wins
press_button_last_key_wins(buttons, b) == {b}

\* gamepad.press_button(b): wButtons |= b, the mask held as a set of buttons
press_button(buttons, b) == buttons \cup {b}

\* faulty variant: the release is lost
release_button_lost(buttons, b) == buttons

\* gamepad.release_button(b): wButtons &= ~b
release_button(buttons, b) == buttons \ {b}

\* gamepad.right_trigger(value)
right_trigger(rep, value) == [rep EXCEPT !.bRightTrigger = value]

-----------------------------------------------------------------------------
(* Initial state: main() has parsed its arguments, started the BLE loop    *)
(* thread and built the controller (lines 231-246).                        *)

Init ==
    /\ ftp \in FtpValues
    /\ threshold \in ThresholdValues
    /\ disable_dpad \in BOOLEAN
    /\ mainPc = "controller"
    /\ registered = {}
    /\ runPc = "init"
    /\ devices = <<>>
    /\ client = NoDevice
    /\ subscribed = FALSE
    /\ scanAttempts = 0
    /\ connectAttempts = 0
    /\ subscribeAttempts = 0
    /\ arrived = <<>>
    /\ handled = 0
    /\ notifyPc = "idle"
    /\ notifyResult = "none"
    /\ power = 0
    /\ trigger = 0
    /\ report = [bRightTrigger |-> 0, wButtons |-> {}]
    /\ status = <<>>
    /\ forwarded = <<>>
    /\ notifyApplies = 0
    /\ notifyExpected = <<>>
    /\ keyPc = "idle"
    /\ keyCur = <<>>
    /\ keyResult = "none"
    /\ edges = [k \in InputKeys |-> 0]
    /\ lastEdge = [k \in InputKeys |-> "none"]
    /\ alternating = [k \in InputKeys |-> TRUE]
    /\ keyApplies = 0
    /\ keyExpected = <<>>
    /\ hidFailures = 0

-----------------------------------------------------------------------------
(* main thread *)

\* the keys setup_keyboard_mapping binds, or none with --disable-dpad
BoundKeys(disabled) == IF disabled THEN {} ELSE DOMAIN key_map

\* main, lines 248-250: if not args.disable_dpad: setup_keyboard_mapping(...)
MainSetupKeyboard ==
    /\ mainPc = "controller"
    /\ mainPc' = "keyboard"
    /\ registered' = BoundKeys(disable_dpad)
    /\ UNCHANGED <<ftp, threshold, disable_dpad>>
    /\ UNCHANGED <<runVars, arrived, notifyVars, report, keyVars, hidFailures>>

\* main, line 252: asyncio.run_coroutine_threadsafe(controller.run(), loop);
\* the main thread then waits for the process lifetime (lines 255-258)
MainScheduleRun ==
    /\ mainPc = "keyboard"
    /\ mainPc' = "waiting"
    /\ runPc' = "scan"
    /\ UNCHANGED <<ftp, threshold, disable_dpad, registered>>
    /\ UNCHANGED <<devices, client, subscribed, scanAttempts, connectAttempts,
                   subscribeAttempts>>
    /\ UNCHANGED <<arrived, notifyVars, report, keyVars, hidFailures>>

-----------------------------------------------------------------------------
(* BLE loop thread: KickrController.run *)

\* what BleakScanner.discover() under wait_for(timeout=10) can do
ScanOutcomes == {"timeout", "error", "devices"}

\* faulty variant: run() scans again after a failure
AfterConnectFalse_retry == "scan"

\* faulty variant: run() ignores connect()'s result and goes on to subscribe
AfterConnectFalse_carries_on == "subscribe"

\* where run() is after connect() returned False (line 139: return)
AfterConnectFalse == "returned"

\* connect(), lines 69-74: await the scan, bounded by wait_for(timeout=10)
Scan(outcome, found) ==
    /\ runPc = "scan"
    /\ scanAttempts' = scanAttempts + 1
    /\ CASE outcome = "timeout" ->
              /\ runPc' = AfterConnectFalse
              /\ devices' = devices
         [] outcome = "error" ->
              \* an exception other than TimeoutError leaves connect and run
              /\ runPc' = "raised"
              /\ devices' = devices
         [] outcome = "devices" ->
              /\ runPc' = "scanned"
              /\ devices' = found
    /\ UNCHANGED <<client, subscribed, connectAttempts, subscribeAttempts>>
    /\ UNCHANGED <<mainVars, arrived, notifyVars, report, keyVars, hidFailures>>

\* connect(), lines 76-86: pick the first matching device, or return False
SelectDevice ==
    /\ runPc = "scanned"
    /\ devices' = <<>>
    /\ IF FirstMatch(devices) = NoDevice
       THEN /\ runPc' = AfterConnectFalse
            /\ client' = client
       ELSE /\ runPc' = "connect"
            /\ client' = FirstMatch(devices)
    /\ UNCHANGED <<subscribed, scanAttempts, connectAttempts, subscribeAttempts>>
    /\ UNCHANGED <<mainVars, arrived, notifyVars, report, keyVars, hidFailures>>

\* connect(), lines 88-94: await self.client.connect()
Connect(ok) ==
    /\ runPc = "connect"
    /\ connectAttempts' = connectAttempts + 1
    /\ runPc' = IF ok THEN "subscribe" ELSE AfterConnectFalse
    /\ UNCHANGED <<devices, client, subscribed, scanAttempts, subscribeAttempts>>
    /\ UNCHANGED <<mainVars, arrived, notifyVars, report, keyVars, hidFailures>>

\* where run() is after start_notifications() returned, whether or not
\* start_notify raised (lines 140-142: while True: await asyncio.sleep(1))
AfterStartNotifications(ok) == "alive"

\* whether the notification callback is registered after start_notify
CallbackRegistered(ok) == ok

\* start_notifications(), lines 128-132, then run() line 141
Subscribe(ok) ==
    /\ runPc = "subscribe"
    /\ subscribeAttempts' = subscribeAttempts + 1
    /\ subscribed' = CallbackRegistered(ok)
    /\ runPc' = AfterStartNotifications(ok)
    /\ UNCHANGED <<devices, client, scanAttempts, connectAttempts>>
    /\ UNCHANGED <<mainVars, arrived, notifyVars, report, keyVars, hidFailures>>

\* the session state of the spec, read off the position of run()
ConnectionState ==
    CASE runPc \in {"init", "returned", "raised"} -> "Disconnected"
      [] runPc \in {"scan", "scanned", "connect"} -> "Scanning"
      [] runPc = "subscribe"                      -> "Connected"
      [] runPc = "alive" -> IF subscribed THEN "Subscribed" ELSE "Connected"

-----------------------------------------------------------------------------
(* BLE loop thread: notifications *)

\* the transport delivers a notification: bleak schedules one task running
\* handle_power_notify(sender, data); tasks run in the order scheduled
Notify(data) ==
    /\ subscribed
    /\ Len(arrived) < MaxNotifications
    /\ arrived' = Append(arrived, data)
    /\ UNCHANGED <<mainVars, runVars, notifyVars, report, keyVars, hidFailures>>

\* where the handler is after gamepad.update() returned or raised: the task
\* is over either way and the loop runs the next one
AfterNotifyUpdate(ok) == "idle"

\* handle_power_notify, lines 104-118: parse, map, write the trigger field
NotifyMutate ==
    /\ notifyPc = "idle"
    /\ handled < Len(arrived)
    /\ handled' = handled + 1
    /\ LET data == arrived[handled + 1]
           p == parse_cycling_power(data)
       IN  /\ power' = p
           /\ IF p >= threshold /\ ScaleRaises(ftp)
              THEN \* line 111 raises: the task ends before any gamepad call
                   /\ notifyResult' = "ZeroDivisionError"
                   /\ notifyPc' = "idle"
                   /\ UNCHANGED <<trigger, report, forwarded, notifyExpected>>
              ELSE /\ trigger' = signal_ratio(p, ftp, threshold)
                   /\ report' = right_trigger(report, trigger_value(trigger'))
                   /\ forwarded' = Append(forwarded, trigger_value(trigger'))
                   /\ notifyExpected' = <<report'>>
                   /\ notifyPc' = "written"
                   /\ UNCHANGED notifyResult
    /\ UNCHANGED <<status, notifyApplies>>
    /\ UNCHANGED <<mainVars, runVars, arrived, keyVars, hidFailures>>

\* faulty variant: the callback is handed the trigger byte for the ratio
update_callback_args_byte(p, t) == <<p, trigger_value(t)>>

\* line 122: self.update_callback(self.power, self.trigger)
update_callback_args(p, t) == <<p, t>>

\* handle_power_notify, lines 119-122: gamepad.update(), then the callback;
\* a failing update raises out of the handler and the callback is skipped
NotifyUpdate(ok) ==
    /\ notifyPc = "written"
    /\ ok \/ hidFailures < MaxHidFailures
    /\ notifyPc' = AfterNotifyUpdate(ok)
    /\ notifyApplies' = notifyApplies + 1
    /\ hidFailures' = IF ok THEN hidFailures ELSE hidFailures + 1
    /\ notifyResult' = IF ok THEN "ok" ELSE "raised"
    /\ status' = IF ok THEN update_callback_args(power, trigger) ELSE status
    /\ notifyExpected' = <<>>
    /\ UNCHANGED <<handled, power, trigger, forwarded>>
    /\ UNCHANGED <<mainVars, runVars, arrived, report, keyVars>>

-----------------------------------------------------------------------------
(* keyboard hook thread: the lambdas of setup_keyboard_mapping *)

TotalEdges == edges["left"] + edges["right"]

\* the first element of a key lambda's tuple: press_button or release_button
ButtonWrite(buttons, b, e) ==
    IF e = "press" THEN press_button(buttons, b) ELSE release_button(buttons, b)

\* where the hook thread is after gamepad.update() returned or raised: the
\* lambda catches nothing, so the exception runs into the dispatch loop of
\* the keyboard hook thread, which may or may not survive it
AfterKeyUpdate(ok, survives) == IF ok \/ survives THEN "idle" ELSE "stopped"

\* lines 160-161 / 164-165: the hook calls the lambda bound to key k, which
\* first writes the button mask
KeyMutate(k, e) ==
    /\ keyPc = "idle"
    /\ k \in registered
    /\ TotalEdges < MaxEdges
    /\ keyPc' = "written"
    /\ keyCur' = <<k, e>>
    /\ report' = [report EXCEPT
                     !.wButtons = ButtonWrite(@, key_map[k], e)]
    /\ keyExpected' = <<report'>>
    /\ edges' = [edges EXCEPT ![k] = @ + 1]
    /\ lastEdge' = [lastEdge EXCEPT ![k] = e]
    /\ alternating' = [alternating EXCEPT
                          ![k] = @ /\ ((e = "press") = (lastEdge[k] # "press"))]
    /\ UNCHANGED <<keyResult, keyApplies>>
    /\ UNCHANGED <<mainVars, runVars, arrived, notifyVars, hidFailures>>

\* lines 162 / 166: the second element of the tuple, gamepad.update()
KeyUpdate(ok, survives) ==
    /\ keyPc = "written"
    /\ ok \/ hidFailures < MaxHidFailures
    /\ keyPc' = AfterKeyUpdate(ok, survives)
    /\ keyCur' = <<>>
    /\ keyApplies' = keyApplies + 1
    /\ hidFailures' = IF ok THEN hidFailures ELSE hidFailures + 1
    /\ keyResult' = IF ok THEN "ok" ELSE "raised"
    /\ keyExpected' = <<>>
    /\ UNCHANGED <<edges, lastEdge, alternating>>
    /\ UNCHANGED <<mainVars, runVars, arrived, notifyVars, report>>

-----------------------------------------------------------------------------

Next ==
    \/ MainSetupKeyboard
    \/ MainScheduleRun
    \/ \E outcome \in ScanOutcomes, found \in DeviceLists :
          Scan(outcome, found)
    \/ SelectDevice
    \/ \E ok \in BOOLEAN : Connect(ok)
    \/ \E ok \in BOOLEAN : Subscribe(ok)
    \/ \E data \in Packets : Notify(data)
    \/ NotifyMutate
    \/ \E ok \in BOOLEAN : NotifyUpdate(ok)
    \/ \E k \in InputKeys, e \in Edges : KeyMutate(k, e)
    \/ \E ok \in BOOLEAN, survives \in BOOLEAN : KeyUpdate(ok, survives)

Spec == Init /\ [][Next]_vars

-----------------------------------------------------------------------------
(* The mapper on its own: a session that is already subscribed, started    *)
(* with --disable-dpad, fed a wider range of packets and settings.         *)

\* --ftp values of the mapper runs (lines 221-222), positive ones
MapperFtpValues == {230, 100}

\* --threshold values of the mapper runs (lines 225-226), a negative one too
MapperThresholdValues == {-20, 0, 50}

\* notification payloads: short ones, both signs, the 16-bit extremes, and
\* payloads that differ only outside bytes 2 and 3
MapperPackets ==
    { <<0, 0>>, <<0, 0, 44>>,
      <<0, 0, 0, 0>>, <<0, 0, 10, 0>>, <<0, 0, 30, 0>>, <<0, 0, 50, 0>>,
      <<0, 0, 100, 0>>, <<0, 0, 230, 0>>,
      <<0, 0, 44, 1>>, <<32, 7, 44, 1, 9>>,
      <<0, 0, 246, 255>>, <<0, 0, 236, 255>>, <<0, 0, 226, 255>>,
      <<0, 0, 255, 127>>, <<0, 0, 0, 128>> }

\* the state run() reaches once start_notifications has subscribed
\* (lines 134-142), main having skipped the keyboard mapping (line 249)
InitMapper ==
    /\ ftp \in MapperFtpValues
    /\ threshold \in MapperThresholdValues
    /\ disable_dpad = TRUE
    /\ mainPc = "waiting"
    /\ registered = BoundKeys(TRUE)
    /\ runPc = AfterStartNotifications(TRUE)
    /\ devices = <<>>
    /\ client \in {d \in DeviceNames : Matches(d)}
    /\ subscribed = CallbackRegistered(TRUE)
    /\ scanAttempts = 1
    /\ connectAttempts = 1
    /\ subscribeAttempts = 1
    /\ arrived = <<>>
    /\ handled = 0
    /\ notifyPc = "idle"
    /\ notifyResult = "none"
    /\ power = 0
    /\ trigger = 0
    /\ report = [bRightTrigger |-> 0, wButtons |-> {}]
    /\ status = <<>>
    /\ forwarded = <<>>
    /\ notifyApplies = 0
    /\ notifyExpected = <<>>
    /\ keyPc = "idle"
    /\ keyCur = <<>>
    /\ keyResult = "none"
    /\ edges = [k \in InputKeys |-> 0]
    /\ lastEdge = [k \in InputKeys |-> "none"]
    /\ alternating = [k \in InputKeys |-> TRUE]
    /\ keyApplies = 0
    /\ keyExpected = <<>>
    /\ hidFailures = 0

NextMapper ==
    \/ \E data \in MapperPackets : Notify(data)
    \/ NotifyMutate
    \/ \E ok \in BOOLEAN : NotifyUpdate(ok)

SpecMapper == InitMapper /\ [][NextMapper]_vars

-----------------------------------------------------------------------------
(* Steps of the two writers, as seen in a pair of states *)

\* some step of handle_power_notify is taken
NotifyStep == handled' # handled \/ notifyPc' # notifyPc

\* some step of a key lambda is taken
KeyStep == keyPc' # keyPc

\* a notification handler calls gamepad.update()
NotifyApplyStep == notifyApplies' # notifyApplies

\* a key lambda calls gamepad.update()
KeyApplyStep == keyApplies' # keyApplies

\* the value handle_power_notify passes to right_trigger for a packet
MappedValue(data) ==
    trigger_value(signal_ratio(parse_cycling_power(data), ftp, threshold))

-----------------------------------------------------------------------------
(* C1 *)

\* C1: mutation and forwarding are one atomic step across writers: between
\* a notification's right_trigger write and its update no step of a key
\* lambda occurs, and between a key lambda's button write and its update no
\* step of a notification handler occurs.
C1_MutateForwardAtomic ==
    [][ /\ (notifyPc = "written" => ~KeyStep)
        /\ (keyPc = "written" => ~NotifyStep) ]_vars

-----------------------------------------------------------------------------
(* C2 *)

\* C2: every submission (one notification or one key edge) has caused
\* exactly one gamepad.update() call, and the report that call carries is
\* the report as it stood right after that submission's own write.
C2_OneApplyOfOwnState ==
    /\ [](notifyPc = "idle" => notifyApplies = handled)
    /\ [](keyPc = "idle" => keyApplies = TotalEdges)
    /\ [][ /\ (NotifyApplyStep => report = notifyExpected[1])
           /\ (KeyApplyStep => report = keyExpected[1]) ]_vars

-----------------------------------------------------------------------------
(* C3 *)

\* C3: notifications are applied in arrival order and none is dropped: the
\* values the handler forwarded are the mapped values of the packets in
\* arrival order, one per handled notification, and once every delivered
\* notification is processed the report's trigger is the mapped value of
\* the last one.
C3_NotificationsInOrder ==
    /\ notifyPc = "idle" => Len(forwarded) = handled
    /\ Len(forwarded) <= handled
    /\ \A i \in 1..Len(forwarded) : forwarded[i] = MappedValue(arrived[i])
    /\ (notifyPc = "idle" /\ handled = Len(arrived) /\ handled > 0)
          => report.bRightTrigger = MappedValue(arrived[handled])

-----------------------------------------------------------------------------
(* C4 *)

\* edges handled for a bound key; only InputKeys ever receive one
EdgeCount(k) == IF k \in InputKeys THEN edges[k] ELSE 0

Alternates(k) == IF k \in InputKeys THEN alternating[k] ELSE TRUE

\* C4: for every bound key whose edges so far alternate press/release
\* starting with a press, its button is held exactly when the key has
\* received an odd number of edges, whatever trigger updates interleave.
C4_ButtonParity ==
    \A k \in DOMAIN key_map :
        Alternates(k) =>
            ((key_map[k] \in report.wButtons) <=> (EdgeCount(k) % 2 = 1))

\* a key was pressed and released again while a notification was forwarded
C4_Witness ==
    /\ edges["left"] = 2
    /\ alternating["left"]
    /\ keyPc = "idle"
    /\ Len(forwarded) >= 1
    /\ "DPAD_LEFT" \notin report.wButtons

-----------------------------------------------------------------------------
(* C5 *)

\* the edge a key lambda starts handling in this step repeats the state of
\* its button: a press of a held button or a release of a free one
RepeatedEdgeStep ==
    /\ edges' # edges
    /\ LET b == key_map[keyCur'[1]]
       IN  \/ keyCur'[2] = "press" /\ b \in report.wButtons
           \/ keyCur'[2] = "release" /\ b \notin report.wButtons

\* C5: a press edge for a held button, or a release edge for a button not
\* held, leaves the button set unchanged and is still followed by exactly
\* one gamepad.update() call.
C5_RepeatedEdgeForwarded ==
    /\ [][RepeatedEdgeStep =>
            /\ report'.wButtons = report.wButtons
            /\ keyPc' = "written"]_vars
    /\ [][(keyPc = "written" /\ KeyStep) => keyApplies' = keyApplies + 1]_vars
    /\ [](keyApplies + (IF keyPc = "written" THEN 1 ELSE 0) = TotalEdges)

\* "left" was pressed twice and both edges were applied
C5_Witness ==
    /\ edges["left"] = 2
    /\ lastEdge["left"] = "press"
    /\ ~alternating["left"]
    /\ keyPc = "idle"
    /\ keyApplies = 2
    /\ report.wButtons = {"DPAD_LEFT"}

-----------------------------------------------------------------------------
(* C6 *)

\* C6: a key edge changes the membership of that key's button only and
\* leaves the trigger and every other button alone; a notification changes
\* the trigger only and leaves the button set alone.
C6_WritersFrame ==
    [][ /\ edges' # edges =>
              /\ report'.bRightTrigger = report.bRightTrigger
              /\ trigger' = trigger
              /\ report'.wButtons \ {key_map[keyCur'[1]]}
                    = report.wButtons \ {key_map[keyCur'[1]]}
        /\ (KeyStep /\ edges' = edges) => report' = report /\ trigger' = trigger
        /\ NotifyStep => report'.wButtons = report.wButtons ]_vars

\* two keys are held together while the trigger is pulled
C6_Witness ==
    /\ report.wButtons = {"DPAD_LEFT", "DPAD_RIGHT"}
    /\ report.bRightTrigger = 217
    /\ keyPc = "idle"
    /\ notifyPc = "idle"

-----------------------------------------------------------------------------
(* C7 *)

ScanFailed ==
    /\ scanAttempts = 1
    /\ connectAttempts = 0
    /\ runPc \notin {"scan", "scanned", "connect"}

ConnectFailed ==
    connectAttempts = 1 /\ subscribeAttempts = 0 /\ runPc # "subscribe"

SubscribeFailed == subscribeAttempts = 1 /\ ~subscribed

\* C7: if scan, connect or subscribe fails, run() returns without raising
\* and the session is Disconnected; run() blocks only when all three
\* succeeded.
C7_FailureReturns ==
    /\ (ScanFailed \/ ConnectFailed \/ SubscribeFailed)
          => (runPc = "returned" /\ ConnectionState = "Disconnected")
    /\ runPc = "alive" => subscribed

-----------------------------------------------------------------------------
(* C8 *)

SessionMoves ==
    { <<"Disconnected", "Scanning">>,
      <<"Scanning", "Connected">>,
      <<"Connected", "Subscribed">>,
      <<"Scanning", "Disconnected">>,
      <<"Connected", "Disconnected">>,
      <<"Subscribed", "Disconnected">> }

\* C8: the session moves only forward along Disconnected, Scanning,
\* Connected, Subscribed or back to Disconnected; scan, connect and
\* subscribe are each attempted at most once, connect only after the scan
\* returned a match, subscribe only after connect succeeded, and the
\* trigger is written from the sensor only while Subscribed.
C8_SessionOrder ==
    [][ /\ ConnectionState' # ConnectionState
              => <<ConnectionState, ConnectionState'>> \in SessionMoves
        /\ scanAttempts' <= 1
        /\ connectAttempts' <= 1
        /\ subscribeAttempts' <= 1
        /\ connectAttempts' # connectAttempts
              => (scanAttempts = 1 /\ client # NoDevice)
        /\ subscribeAttempts' # subscribeAttempts
              => (connectAttempts = 1 /\ ConnectionState = "Connected")
        /\ (forwarded' # forwarded \/ trigger' # trigger)
              => ConnectionState = "Subscribed" ]_vars

\* the session went through every step once and a notification was mapped
C8_Witness ==
    /\ ConnectionState = "Subscribed"
    /\ scanAttempts = 1 /\ connectAttempts = 1 /\ subscribeAttempts = 1
    /\ Len(forwarded) = 2
    /\ trigger # 0

-----------------------------------------------------------------------------
(* C9 *)

\* C9: with a functional-threshold-power of zero or less no key binding is
\* registered, no session is started and no notification is mapped.
C9_NonPositiveFtpRejected ==
    ftp <= 0 =>
        /\ registered = {}
        /\ runPc = "init"
        /\ handled = 0

-----------------------------------------------------------------------------
(* C10 *)

\* a gamepad.update() call fails in this step
HidFailureStep == hidFailures' # hidFailures

\* every write so far has had its gamepad.update() call, but for the
\* handlers that stand between their write and their call
ForwardingInStep ==
    /\ notifyApplies + (IF notifyPc = "written" THEN 1 ELSE 0) = Len(forwarded)
    /\ keyApplies + (IF keyPc = "written" THEN 1 ELSE 0) = TotalEdges

\* C10: when gamepad.update() fails for a submission the failure reaches
\* the submission's caller, the report and self.trigger hold the intended
\* new value, the writer is ready for its next submission, and later
\* submissions are written and forwarded as before.
C10_HidFailureContained ==
    /\ [][(HidFailureStep /\ NotifyApplyStep) =>
            /\ notifyResult' = "raised"
            /\ report' = report /\ trigger' = trigger
            /\ trigger = signal_ratio(power, ftp, threshold)
            /\ report.bRightTrigger = trigger_value(trigger)
            /\ notifyPc' = "idle"
            /\ keyPc' = keyPc]_vars
    /\ [][(HidFailureStep /\ KeyApplyStep) =>
            /\ keyResult' = "raised"
            /\ report' = report
            /\ (key_map[keyCur[1]] \in report.wButtons) <=> (keyCur[2] = "press")
            /\ keyPc' = "idle"
            /\ notifyPc' = notifyPc]_vars
    /\ [](hidFailures > 0 => ForwardingInStep)

-----------------------------------------------------------------------------
(* Parsing and mapping, checked under SpecMapper *)

\* the payload of the notification the handler took last
LastPayload == arrived[handled]

\* the two's-complement reading of a 16-bit word
SignedWord(w) == ((w + 32768) % 65536) - 32768

\* C11: parsing is total: a payload shorter than 4 bytes gives 0 W, any
\* other gives the signed 16-bit little-endian integer of bytes 2 and 3,
\* whatever the other bytes are; no payload makes it fail.
C11_ParseTotal ==
    handled > 0 =>
        /\ Len(LastPayload) < 4 => power = 0
        /\ Len(LastPayload) >= 4 =>
               power = SignedWord(LastPayload[3] + 256 * LastPayload[4])

\* a short payload, the most negative reading and a reading among other
\* bytes have all been parsed
C11_Witness ==
    /\ handled = 2
    /\ arrived = << <<0, 0, 0, 128>>, <<32, 7, 44, 1, 9>> >>
    /\ power = 300
    /\ status # <<>> /\ status[1] = -32768

\* C12: a power strictly below the threshold gives a ratio of exactly 0 and
\* a trigger byte of 0, whatever the FTP; a power equal to the threshold is
\* not zeroed by the threshold rule.
C12_ThresholdStrict ==
    handled > 0 =>
        /\ power < threshold => trigger = 0 /\ report.bRightTrigger = 0
        /\ power = threshold /\ power # 0 => trigger # 0

\* 30 W under a threshold of 50 W was reported as 0, and 50 W is mapped
C12_Witness ==
    /\ threshold = 50
    /\ status = <<30, 0>>
    /\ notifyPc = "written"
    /\ power = 50
    /\ trigger > 0

\* the nearest integer to x / d, for d > 0
RoundDiv(x, d) ==
    IF x >= 0 THEN (2 * x + d) \div (2 * d) ELSE -((2 * (-x) + d) \div (2 * d))

\* C13: with F > 0 the trigger ratio is within [0, 1] and the byte handed
\* to the gamepad is within 0..255 in every state, negative power samples
\* and a negative threshold included.
C13_RatioAndByteInRange ==
    ftp > 0 =>
        /\ 0 <= trigger /\ trigger <= RatioUnit
        /\ \A i \in 1..Len(forwarded) : forwarded[i] \in 0..255
        /\ report.bRightTrigger \in 0..255

\* C14: the byte forwarded to the gamepad is round(ratio * 255), the
\* nearest integer to ratio * 255, for every ratio the mapper produces.
C14_ByteIsRounded ==
    handled > 0 =>
        /\ report.bRightTrigger = RoundDiv(trigger * 255, RatioUnit)
        /\ forwarded[Len(forwarded)] = RoundDiv(trigger * 255, RatioUnit)

\* C15: for fixed F > 0 and T the mapping is monotonically non-decreasing
\* in the power: of the sample last reported to the callback and the sample
\* just mapped, the one with the lower power has the lower or equal ratio,
\* on either side of the threshold and for a negative threshold.
C15_Monotone ==
    (ftp > 0 /\ status # <<>> /\ notifyPc = "written") =>
        /\ status[1] <= power => status[2] <= trigger
        /\ power <= status[1] => trigger <= status[2]

\* the handler has just written the trigger for the payload 00 00 2C 01
\* under --ftp 230 --threshold 0
Scenario300 ==
    /\ ftp = 230
    /\ threshold = 0
    /\ notifyPc = "written"
    /\ LastPayload = <<0, 0, 44, 1>>

C17_Calibration ==
    (handled > 0 /\ ftp > 0 /\ threshold = 0 /\ power = ftp) =>
        /\ trigger - 750000 <= 1
        /\ 750000 - trigger <= 1

\* a rider at an FTP of 100 W, not the default, has produced 100 W
C17_Witness ==
    /\ handled > 0
    /\ ftp = 100
    /\ threshold = 0
    /\ power = 100
    /\ trigger = 750000

-----------------------------------------------------------------------------
(* Startup failures, status updates and device selection, checked under    *)
(* Spec                                                                     *)

\* C18: if the scan times out or finds no matching device, the connect
\* fails or the subscribe fails, the bridge is inert: from then on no
\* notification is handled, nothing sensor-derived is written to the
\* gamepad, and the trigger stays at its initial 0.  (Each of the three
\* failure predicates stays true once true, so "in every later state" is
\* the invariant itself.)
C18_FailureInert ==
    (ScanFailed \/ ConnectFailed \/ SubscribeFailed) =>
        /\ arrived = <<>> /\ handled = 0
        /\ forwarded = <<>> /\ notifyApplies = 0
        /\ trigger = 0
        /\ report.bRightTrigger = 0
        /\ status = <<>>

\* the subscribe failed and run() idles, while the keys go on working
C18_Witness ==
    /\ SubscribeFailed
    /\ runPc = "alive"
    /\ keyApplies > 0
    /\ report.wButtons # {}
    /\ report.bRightTrigger = 0

\* the callback is handed a new pair in this step
StatusStep == status' # status

\* C19: every status update handed to the callback is a consistent pair:
\* its ratio is the mapper's result for its watts under the configured F
\* and T, both are those of the notification being handled, and it is
\* handed over only in the step in which that notification's
\* gamepad.update() call has returned without failing.
C19_StatusCommitted ==
    /\ [](status # <<>> =>
            status[2] = (IF status[1] < threshold
                         THEN 0
                         ELSE tanh_scaled(ftp, status[1])))
    /\ [][StatusStep =>
            /\ notifyPc = "written"
            /\ NotifyApplyStep
            /\ hidFailures' = hidFailures
            /\ notifyResult' = "ok"
            /\ status'[1] = parse_cycling_power(LastPayload)
            /\ status' = <<power, trigger>>
            /\ report.bRightTrigger = trigger_value(status'[2])]_vars

\* of two notifications one had its gamepad.update() fail; the pair the
\* callback holds is that of the other, 300 W at an FTP of 230 W
C19_Witness ==
    /\ notifyApplies = 2
    /\ hidFailures = 1
    /\ notifyPc = "idle"
    /\ status = <<300, 853545>>

\* two characters that are the same letter, whatever their case
SameLetter(a, b) ==
    \/ a = b
    \/ {a, b} \in { {"k", "K"}, {"i", "I"}, {"x", "X"} }

\* the filter given on the command line occurs in the advertised name,
\* case ignored
NameHasFilter(name) ==
    \E off \in 0..(Len(name) - Len(device_name_arg)) :
        \A j \in 1..Len(device_name_arg) :
            SameLetter(name[off + j], device_name_arg[j])

\* positions, in discovery order, of the named devices that carry the filter
Candidates == {i \in 1..Len(devices) : devices[i] # <<>> /\ NameHasFilter(devices[i])}

\* connect() leaves its scan step in this step
ScanEnds == runPc \in {"scan", "scanned"} /\ runPc' \notin {"scan", "scanned"}

\* C20: the scan selects the first device, in discovery order, whose
\* advertised name contains the filter, case ignored; a device without a
\* name never matches; when no device matches, or the scan times out, the
\* result is not-found and no connect is attempted, then or later.
C20_FirstMatchSelected ==
    /\ [][(ScanEnds /\ runPc = "scanned") =>
            IF Candidates = {}
            THEN /\ runPc' = "returned"
                 /\ client' = NoDevice
            ELSE /\ runPc' = "connect"
                 /\ \E i \in Candidates :
                       /\ \A j \in Candidates : i <= j
                       /\ client' = devices[i]
                 /\ client' # <<>>]_vars
    /\ [][(ScanEnds /\ runPc = "scan") =>
            /\ runPc' \in {"returned", "raised"}
            /\ client' = NoDevice]_vars
    /\ [](client = NoDevice => connectAttempts = 0 /\ runPc # "connect")

\* a device whose name carries the filter in another case, and not at its
\* start, has been selected and is about to be connected to
C20_Witness ==
    /\ runPc = "connect"
    /\ client = <<"x", "k", "I">>
    /\ connectAttempts = 0

====
